---- MODULE Spec2Model ----
(***************************************************************************)
(* A model of the GATI satellite-orbit animation: the time grid            *)
(* (build_times), the TLE fetch (app.fetch_tle / get_tles and              *)
(* tle_utils.fetch_tle with its cache file), the SGP4 propagation loop     *)
(* (propagate_positions) and the animation-frame assembly of app.py.       *)
(*                                                                         *)
(* Three specifications share the module:                                  *)
(*   SpecGrid  build_times applied to a configuration, then trail_frames   *)
(*   Spec      the app.py script: get_tles, propagate_positions, the       *)
(*             animation set-up, the frame loop, fig.add_traces            *)
(*   SpecTle   sequences of tle_utils.fetch_tle calls over the cache file  *)
(*                                                                         *)
(* Timestamps are integers counting minutes; a timedelta is a number of    *)
(* minutes.  Python lists are sequences (index i of the code is index i+1  *)
(* here).  A dict is a record [keys, val]: keys is the insertion order,    *)
(* which is the order Python iterates a dict in.                           *)
(***************************************************************************)
EXTENDS Integers, Sequences, FiniteSets, TLC

VARIABLES
    pc,            \* the position of the script / of the call being modelled
    start,         \* build_times: start
    days,          \* build_times: days (the "Days to simulate" slider)
    step,          \* build_times: step_minutes (the "Time step" slider)
    t,             \* build_times: the loop variable t
    end,           \* build_times: end
    times,         \* build_times: the list being built; app.py: times
    trail_frames,  \* app.py: trail_frames
    names,         \* app.py: names = list(sats.keys())
    element_set,   \* what CelesTrak answers for each satellite of satellites.json
    tle_map,       \* get_tles: the dict being built; app.py: tle_map
    results,       \* propagate_positions: the dict being built; app.py: results
    eci_list,      \* propagate_positions: eci_list of the object being propagated
    e_log,         \* the error codes sat.sgp4 returned, per object, in call order
    initial_data,  \* app.py: initial_data
    frames,        \* app.py: frames
    fig_data,      \* the traces of fig, in figure order
    fig_frames,    \* the frames of fig
    cache_file,    \* tle_utils: the file tle_cache.json
    call,          \* tle_utils.fetch_tle: the last call, its response and its outcome
    last_good      \* per catalog number, the pair the last successful fetch returned

gridVars  == <<start, days, t, end>>
appVars   == <<names, element_set, tle_map, results, eci_list, e_log,
               initial_data, frames, fig_data, fig_frames>>
tleVars   == <<cache_file, call, last_good>>
vars      == <<pc, step, times, trail_frames, gridVars, appVars, tleVars>>

----------------------------------------------------------------------------
(* Bounds of the model *)

MaxDays    == 8      \* days are drawn from -1..MaxDays
MaxStep    == 400    \* step_minutes is drawn from -1..MaxStep
MaxStart   == 1      \* start is drawn from 0..MaxStart
MaxGrid    == 90     \* a grid is followed up to MaxGrid timestamps
FracBits   == 20     \* fraction bits kept of a float quotient
MaxSats    == 2      \* satellites.json names at most MaxSats satellites
MaxGridLen == 3      \* the script is run on grids of at most MaxGridLen timestamps
MaxFailures == 2     \* sat.sgp4 fails at most MaxFailures times in a run
MaxCat     == 2      \* tle_utils.fetch_tle is called with catalog numbers 1..MaxCat
MaxVer     == 2      \* CelesTrak serves at most MaxVer different texts per number
MaxLines   == 3      \* a response has at most MaxLines lines

(* Program constants *)

MinutesPerDay == 1440   \* timedelta(days=1) / timedelta(minutes=1)
MinDaysCfg    == 7      \* st.slider("Days to simulate", 7, 35, 30)
MaxDaysCfg    == 35
MinStepCfg    == 5      \* st.slider("Time step (minutes)", 5, 120, 30)
MaxStepCfg    == 120
TrailMinutes  == 360    \* 6*60 in trail_frames

Max(a, b) == IF a >= b THEN a ELSE b
Min(a, b) == IF a <= b THEN a ELSE b
Abs(a)    == IF a >= 0 THEN a ELSE -a
Sign(a)   == IF a >= 0 THEN 1 ELSE -1

----------------------------------------------------------------------------
(* build_times (src/orbit_propagation.py:9-19, src/app.py:52-59)           *)

\* timedelta(days=days)
DaysDelta(d) == d * MinutesPerDay

\* the loop condition of line 16, and the same with a strict comparison
WhileCondStrict(tt, e) == tt < e
WhileCond(tt, e) == tt <= e

\* t += timedelta(minutes=step_minutes)
Advance(tt, s) == tt + s

\* The configurations build_times is applied to.  A configuration with
\* days > 0 and step_minutes > 0 is drawn when its grid has at most MaxGrid
\* timestamps, so that its call runs to its return.
GridInputs ==
    { c \in ((-1)..MaxDays) \X ((-1)..MaxStep) :
        \/ c[1] <= 0
        \/ c[2] <= 0
        \/ DaysDelta(c[1]) <= (MaxGrid - 1) * c[2] }

Idle == "idle"
None == "None"
EmptyDict == [keys |-> <<>>, val |-> <<>>]

\* the variables of the app.py script, while another part is modelled
AppIdle ==
    /\ names = <<>>
    /\ element_set = <<>>
    /\ tle_map = EmptyDict
    /\ results = EmptyDict
    /\ eci_list = <<>>
    /\ e_log = <<>>
    /\ initial_data = <<>>
    /\ frames = <<>>
    /\ fig_data = <<>>
    /\ fig_frames = <<>>

NoCall == [catnr |-> 0, request |-> <<>>, outcome |-> Idle, value |-> <<>>]

TleIdle ==
    /\ cache_file = [exists |-> FALSE, readable |-> TRUE, data |-> EmptyDict]
    /\ call = NoCall
    /\ last_good = <<>>

InitGrid ==
    /\ pc = "build_times"
    /\ start \in 0..MaxStart
    /\ \E c \in GridInputs : days = c[1] /\ step = c[2]
    /\ t = 0
    /\ end = 0
    /\ times = <<>>
    /\ trail_frames = 0
    /\ AppIdle
    /\ TleIdle

\* lines 13-15: times = [], t = start, end = start + timedelta(days=days)
BuildTimesEnter ==
    /\ pc = "build_times"
    /\ times' = <<>>
    /\ t' = start
    /\ end' = start + DaysDelta(days)
    /\ pc' = "while"
    /\ UNCHANGED <<start, days, step, trail_frames, appVars, tleVars>>

\* lines 16-18: one iteration of the loop
BuildTimesLoop ==
    /\ pc = "while"
    /\ WhileCond(t, end)
    /\ Len(times) < MaxGrid
    /\ times' = Append(times, t)
    /\ t' = Advance(t, step)
    /\ UNCHANGED <<pc, start, days, step, end, trail_frames, appVars, tleVars>>

\* line 19: return times
BuildTimesReturn ==
    /\ pc = "while"
    /\ ~WhileCond(t, end)
    /\ pc' = "returned"
    /\ UNCHANGED <<start, days, step, t, end, times, trail_frames, appVars, tleVars>>

----------------------------------------------------------------------------
(* trail_frames = max(1, int(6*60/step))   (src/app.py:101)                *)

\* a / b of two ints: the float nearest the quotient, kept here as a number
\* of 2^-FracBits units (a binary64 keeps at least 44 fraction bits of a
\* value below 512; the model keeps FracBits)
TrueDiv(a, b) ==
    Sign(a) * Sign(b) * ((2 * Abs(a) * (2 ^ FracBits) + Abs(b)) \div (2 * Abs(b)))

\* int(x) of a float: truncation towards zero
IntOfFloat(x) == Sign(x) * (Abs(x) \div (2 ^ FracBits))

\* line 101, and the same without the floor of 1
TrailFramesNoFloor(s) == IntOfFloat(TrueDiv(TrailMinutes, s))
TrailFramesOf(s) == Max(1, IntOfFloat(TrueDiv(TrailMinutes, s)))

\* line 101 after the grid is built; 6*60/0 raises ZeroDivisionError
GridTrailFrames ==
    /\ pc = "returned"
    /\ IF step = 0
       THEN pc' = "ZeroDivisionError" /\ UNCHANGED trail_frames
       ELSE pc' = "grid_done" /\ trail_frames' = TrailFramesOf(step)
    /\ UNCHANGED <<start, days, step, t, end, times, appVars, tleVars>>

----------------------------------------------------------------------------
(* The trail window of the frame loop (src/app.py:114-115)                 *)

\* a slice bound as Python normalises it against a length n
SliceBound(i, n) == IF i < 0 THEN Max(i + n, 0) ELSE Min(i, n)

\* seq[a:b] for 0-based a and b
PySlice(seq, a, b) ==
    LET lo == SliceBound(a, Len(seq))
        hi == SliceBound(b, Len(seq))
    IN  IF lo >= hi THEN <<>> ELSE SubSeq(seq, lo + 1, hi)

\* start_idx = max(0, k - trail_frames), and the same without the max
TrailStartNoMax(k, L) == k - L
TrailStart(k, L) == Max(0, k - L)

\* trail = xyz[start_idx:k+1]
TrailWindow(xyz, k, L) == PySlice(xyz, TrailStart(k, L), k + 1)

NextGrid ==
    \/ BuildTimesEnter
    \/ BuildTimesLoop
    \/ BuildTimesReturn
    \/ GridTrailFrames

SpecGrid == InitGrid /\ [][NextGrid]_vars

----------------------------------------------------------------------------
(* The app.py script                                                       *)

Range(f) == { f[i] : i \in DOMAIN f }

\* d[k] = v on a dict: a new key goes last in the iteration order
DictSet(d, k, v) ==
    IF k \in Range(d.keys)
    THEN [keys |-> d.keys, val |-> [d.val EXCEPT ![k] = v]]
    ELSE [keys |-> Append(d.keys, k), val |-> (k :> v) @@ d.val]

\* the satellite names satellites.json may hold
SatNames == { <<"SAT", i>> : i \in 1..MaxSats }

\* names: the keys of satellites.json in file order, no key twice
NameLists ==
    { l \in UNION { [1..n -> SatNames] : n \in 1..MaxSats } :
        \A i, j \in DOMAIN l : i # j => l[i] # l[j] }

\* CelesTrak's answers: an element set (name line, line 1, line 2), the
\* one-line "No GP data found", or three lines that are no element set
Answers == {"ok", "not_found", "unparsable"}

\* resp.text.strip().split("\n") of the answer for a satellite
ResponseLines(name) ==
    CASE element_set[name] = "ok" ->
           << [sat |-> name, line |-> 0, good |-> TRUE],
              [sat |-> name, line |-> 1, good |-> TRUE],
              [sat |-> name, line |-> 2, good |-> TRUE] >>
      [] element_set[name] = "unparsable" ->
           << [sat |-> name, line |-> 0, good |-> FALSE],
              [sat |-> name, line |-> 1, good |-> FALSE],
              [sat |-> name, line |-> 2, good |-> FALSE] >>
      [] OTHER -> << [sat |-> name, line |-> 0, good |-> FALSE] >>

\* Satrec.twoline2rv(l1, l2) raises ValueError on lines it cannot parse
Parsable(l1, l2) == l1.good /\ l2.good /\ l1.line = 1 /\ l2.line = 2

\* the steps the script is run with: the ends of the slider range and the
\* steps around the 6-hour trail duration
StepInputs ==
    {MinStepCfg, MaxStepCfg, TrailMinutes \div 2, TrailMinutes, TrailMinutes + 1}

\* the error codes of sat.sgp4: 0, or a failure
ErrCodes == 0..1

\* r of sat.sgp4(jd, fr) for a satellite at a timestamp: three coordinates
SgpPosition(name, tm) == << <<name, tm, "x">>, <<name, tm, "y">>, <<name, tm, "z">> >>

\* lines 74-77: the sample appended for an error code e and a position r,
\* and the same without the test of e
SampleOfUnchecked(e, r) == << r[1], r[2], r[3] >>
SampleOf(e, r) == IF e = 0 THEN << r[1], r[2], r[3] >> ELSE << None, None, None >>

\* the failures sat.sgp4 has reported so far
Failures ==
    Cardinality({ p \in (DOMAIN e_log) \X (1..MaxGridLen) :
                    p[2] <= Len(e_log[p[1]]) /\ e_log[p[1]][p[2]] # 0 })

InitApp ==
    /\ pc = "get_tles"
    /\ names \in NameLists
    /\ element_set \in [Range(names) -> Answers]
    /\ step \in StepInputs
    /\ \E n \in 1..MaxGridLen : times = [i \in 1..n |-> (i - 1) * step]
    /\ start = 0 /\ days = 0 /\ t = 0 /\ end = 0
    /\ trail_frames = 0
    /\ tle_map = EmptyDict
    /\ results = EmptyDict
    /\ eci_list = <<>>
    /\ e_log = [n \in Range(names) |-> <<>>]
    /\ initial_data = <<>>
    /\ frames = <<>>
    /\ fig_data = <<>>
    /\ fig_frames = <<>>
    /\ TleIdle

\* get_tles, one iteration: tle_map[name] = fetch_tle(catnr); fetch_tle
\* raises ValueError on fewer than 3 lines and nothing catches it
GetTle ==
    /\ pc = "get_tles"
    /\ Len(tle_map.keys) < Len(names)
    /\ LET name  == names[Len(tle_map.keys) + 1]
           lines == ResponseLines(name)
       IN  IF Len(lines) < 3
           THEN pc' = "ValueError" /\ UNCHANGED tle_map
           ELSE /\ tle_map' = DictSet(tle_map, name, <<lines[1], lines[2], lines[3]>>)
                /\ UNCHANGED pc
    /\ UNCHANGED <<step, times, trail_frames, gridVars, names, element_set, results,
                   eci_list, e_log, initial_data, frames, fig_data, fig_frames, tleVars>>

\* get_tles returns tle_map
GetTlesReturn ==
    /\ pc = "get_tles"
    /\ Len(tle_map.keys) = Len(names)
    /\ pc' = "propagate"
    /\ UNCHANGED <<step, times, trail_frames, gridVars, appVars, tleVars>>

\* the object propagate_positions is at: the next key of tle_map
CurrentObject == tle_map.keys[Len(results.keys) + 1]

\* propagate_positions, lines 67-69: sat = Satrec.twoline2rv(l1, l2), which
\* raises on an unparsable pair, and eci_list = []
PropagateObject ==
    /\ pc = "propagate"
    /\ Len(results.keys) < Len(tle_map.keys)
    /\ LET tle == tle_map.val[CurrentObject]
       IN  IF Parsable(tle[2], tle[3])
           THEN pc' = "samples" /\ eci_list' = <<>>
           ELSE pc' = "ValueError" /\ UNCHANGED eci_list
    /\ UNCHANGED <<step, times, trail_frames, gridVars, names, element_set, tle_map,
                   results, e_log, initial_data, frames, fig_data, fig_frames, tleVars>>

\* lines 71-77: one timestamp: e, r, v = sat.sgp4(jd, fr) and the append
PropagateSample ==
    /\ pc = "samples"
    /\ Len(eci_list) < Len(times)
    /\ \E e \in ErrCodes :
         /\ e # 0 => Failures < MaxFailures
         /\ eci_list' = Append(eci_list,
                          SampleOf(e, SgpPosition(CurrentObject, times[Len(eci_list) + 1])))
         /\ e_log' = [e_log EXCEPT ![CurrentObject] = Append(@, e)]
    /\ UNCHANGED <<pc, step, times, trail_frames, gridVars, names, element_set, tle_map,
                   results, initial_data, frames, fig_data, fig_frames, tleVars>>

\* line 79: results[name] = dict(time_list=times, eci_xyz=np.array(eci_list))
PropagateStore ==
    /\ pc = "samples"
    /\ Len(eci_list) = Len(times)
    /\ results' = DictSet(results, CurrentObject,
                          [time_list |-> times, eci_xyz |-> eci_list])
    /\ pc' = "propagate"
    /\ UNCHANGED <<step, times, trail_frames, gridVars, names, element_set, tle_map,
                   eci_list, e_log, initial_data, frames, fig_data, fig_frames, tleVars>>

\* line 80: return results
PropagateReturn ==
    /\ pc = "propagate"
    /\ Len(results.keys) = Len(tle_map.keys)
    /\ pc' = "animation_setup"
    /\ UNCHANGED <<step, times, trail_frames, gridVars, appVars, tleVars>>

----------------------------------------------------------------------------
(* The animation set-up and the frame loop (src/app.py:86-123)             *)

\* lines 93-94: go.Surface(..., name="Earth")
EarthSurface ==
    [type |-> "surface", name |-> "Earth", mode |-> None, x |-> <<>>, y |-> <<>>,
     z |-> <<>>, symbol |-> None, text |-> None, showlegend |-> None]

Scatter3d(x, y, z, mode, name, symbol, text, showlegend) ==
    [type |-> "scatter3d", name |-> name, mode |-> mode, x |-> x, y |-> y, z |-> z,
     symbol |-> symbol, text |-> text, showlegend |-> showlegend]

\* line 99
symbols ==
    <<"circle", "square", "diamond", "cross", "x", "triangle-up", "triangle-down",
      "triangle-left", "triangle-right", "star">>

\* enumerate(names): the 0-based position of a name
IndexOf(name) == (CHOOSE i \in DOMAIN names : names[i] = name) - 1

\* line 100: symbol_map[name]
symbol_map(name) == symbols[(IndexOf(name) % Len(symbols)) + 1]

\* xyz[:, c] of a list of samples
Column(xyz, c) == [i \in DOMAIN xyz |-> xyz[i][c]]

\* f"{name} trail"
TrailName(name) == <<name, " trail">>

\* f"f{k}"
FrameName(k) == <<"f", k>>

\* lines 104-107: the two initial traces of an object
InitialTraces(name) ==
    LET xyz == results.val[name].eci_xyz
    IN  << Scatter3d(<<>>, <<>>, <<>>, "lines", TrailName(name), None, None, FALSE),
           Scatter3d(<<xyz[1][1]>>, <<xyz[1][2]>>, <<xyz[1][3]>>, "markers+text", name,
                     symbol_map(name), <<name>>, None) >>

\* lines 113-119: the two traces of an object in frame k (0-based), and the
\* same with the marker appended before the trail
ObjectTracesMarkerFirst(name, k) ==
    LET xyz   == results.val[name].eci_xyz
        trail == TrailWindow(xyz, k, trail_frames)
    IN  << Scatter3d(<<xyz[k + 1][1]>>, <<xyz[k + 1][2]>>, <<xyz[k + 1][3]>>,
                     "markers+text", name, symbol_map(name), <<name>>, k = 0),
           Scatter3d(Column(trail, 1), Column(trail, 2), Column(trail, 3), "lines",
                     None, None, None, FALSE) >>
ObjectTraces(name, k) ==
    LET xyz   == results.val[name].eci_xyz
        trail == TrailWindow(xyz, k, trail_frames)
    IN  << Scatter3d(Column(trail, 1), Column(trail, 2), Column(trail, 3), "lines",
                     None, None, None, FALSE),
           Scatter3d(<<xyz[k + 1][1]>>, <<xyz[k + 1][2]>>, <<xyz[k + 1][3]>>,
                     "markers+text", name, symbol_map(name), <<name>>, k = 0) >>

\* lines 111-119: frame_data after the loop over names from position i on
RECURSIVE FrameDataFrom(_, _)
FrameDataFrom(i, k) ==
    IF i > Len(names) THEN <<>>
    ELSE ObjectTraces(names[i], k) \o FrameDataFrom(i + 1, k)

\* list(range(n))
RangeList(n) == [i \in 1..n |-> i - 1]

\* lines 86-101: the Earth trace is added to the figure, frames and
\* initial_data are emptied and trail_frames is computed
AnimationSetup ==
    /\ pc = "animation_setup"
    /\ fig_data' = <<EarthSurface>>
    /\ frames' = <<>>
    /\ initial_data' = <<>>
    /\ trail_frames' = TrailFramesOf(step)
    /\ pc' = "initial_data"
    /\ UNCHANGED <<step, times, gridVars, names, element_set, tle_map, results,
                   eci_list, e_log, fig_frames, tleVars>>

\* lines 103-107, one iteration
InitialDataAppend ==
    /\ pc = "initial_data"
    /\ Len(initial_data) < 2 * Len(names)
    /\ initial_data' = initial_data \o InitialTraces(names[Len(initial_data) \div 2 + 1])
    /\ UNCHANGED <<pc, step, times, trail_frames, gridVars, names, element_set, tle_map,
                   results, eci_list, e_log, frames, fig_data, fig_frames, tleVars>>

\* line 109: num_frames = len(times)
InitialDataDone ==
    /\ pc = "initial_data"
    /\ Len(initial_data) = 2 * Len(names)
    /\ pc' = "frames"
    /\ UNCHANGED <<step, times, trail_frames, gridVars, appVars, tleVars>>

\* lines 110-120, one iteration: frame k = len(frames)
FrameAppend ==
    /\ pc = "frames"
    /\ Len(frames) < Len(times)
    /\ LET k          == Len(frames)
           frame_data == FrameDataFrom(1, k)
       IN  frames' = Append(frames,
                       [data |-> frame_data, name |-> FrameName(k),
                        traces |-> RangeList(Len(frame_data))])
    /\ UNCHANGED <<pc, step, times, trail_frames, gridVars, names, element_set, tle_map,
                   results, eci_list, e_log, initial_data, fig_data, fig_frames, tleVars>>

\* lines 122-123: fig.add_traces(initial_data); fig.update(frames=frames)
AddTraces ==
    /\ pc = "frames"
    /\ Len(frames) = Len(times)
    /\ fig_data' = fig_data \o initial_data
    /\ fig_frames' = frames
    /\ pc' = "done"
    /\ UNCHANGED <<step, times, trail_frames, gridVars, names, element_set, tle_map,
                   results, eci_list, e_log, initial_data, frames, tleVars>>

Next ==
    \/ GetTle
    \/ GetTlesReturn
    \/ PropagateObject
    \/ PropagateSample
    \/ PropagateStore
    \/ PropagateReturn
    \/ AnimationSetup
    \/ InitialDataAppend
    \/ InitialDataDone
    \/ FrameAppend
    \/ AddTraces

Spec == InitApp /\ [][Next]_vars

----------------------------------------------------------------------------
(* tle_utils.fetch_tle and the file tle_cache.json (src/tle_utils.py:5-36) *)

CatNrs == 1..MaxCat

\* resp.text.strip().split("\n") of a response: at least one line
TleResponses ==
    { [i \in 1..n |-> [cat |-> c, ver |-> v, line |-> i - 1]] :
        c \in CatNrs, v \in 1..MaxVer, n \in 1..MaxLines }

\* lines 34-36: the dummy ISS pair
DummyTle ==
    << [cat |-> 25544, ver |-> 0, line |-> 1], [cat |-> 25544, ver |-> 0, line |-> 2] >>

\* lines[0], lines[1]: IndexError on a list of fewer than two elements
HasPair(lines) == Len(lines) >= 2
PairOf(lines) == << lines[1], lines[2] >>

\* the file after lines 15-21: the cache read, cache[str(catnr)] = lines,
\* and the file written back
CacheWritten(catnr, lines) ==
    [exists |-> TRUE, readable |-> TRUE,
     data |-> DictSet(IF cache_file.exists THEN cache_file.data ELSE EmptyDict,
                      catnr, lines)]

\* lines 25-36, the except branch, on the file as it is then: the outcome
\* of the call and the value returned
Fallback(file, catnr) ==
    IF file.exists
    THEN IF ~file.readable
         THEN [outcome |-> "raised", value |-> <<>>]            \* json.load raises
         ELSE IF catnr \in Range(file.data.keys)
              THEN IF HasPair(file.data.val[catnr])
                   THEN [outcome |-> "returned", value |-> PairOf(file.data.val[catnr])]
                   ELSE [outcome |-> "raised", value |-> <<>>]  \* IndexError
              ELSE [outcome |-> "returned", value |-> DummyTle]
    ELSE [outcome |-> "returned", value |-> DummyTle]

InitTle ==
    /\ pc = "tle_utils"
    /\ cache_file = [exists |-> FALSE, readable |-> TRUE, data |-> EmptyDict]
    /\ call = NoCall
    /\ last_good = [c \in CatNrs |-> <<>>]
    /\ step = 0 /\ times = <<>> /\ trail_frames = 0
    /\ start = 0 /\ days = 0 /\ t = 0 /\ end = 0
    /\ AppIdle

\* fetch_tle(catnr) when requests.get or raise_for_status raises
FetchTleRequestFails ==
    \E catnr \in CatNrs :
      LET r == Fallback(cache_file, catnr) IN
      /\ pc = "tle_utils"
      /\ call' = [catnr |-> catnr, request |-> <<>>, outcome |-> r.outcome,
                  value |-> r.value]
      /\ UNCHANGED <<pc, cache_file, last_good, step, times, trail_frames,
                     gridVars, appVars>>

\* fetch_tle(catnr) when the request is answered
FetchTleAnswered ==
    \E lines \in TleResponses :
      LET catnr == lines[1].cat IN
      /\ pc = "tle_utils"
      /\ IF cache_file.exists /\ ~cache_file.readable
         THEN \* line 18: json.load raises, the except branch reads the file again
              LET r == Fallback(cache_file, catnr) IN
              /\ call' = [catnr |-> catnr, request |-> lines, outcome |-> r.outcome,
                          value |-> r.value]
              /\ UNCHANGED <<cache_file, last_good>>
         ELSE /\ cache_file' = CacheWritten(catnr, lines)
              /\ IF HasPair(lines)
                 THEN /\ call' = [catnr |-> catnr, request |-> lines,
                                  outcome |-> "returned", value |-> PairOf(lines)]
                      /\ last_good' = [last_good EXCEPT ![catnr] = PairOf(lines)]
                 ELSE \* line 23 raises IndexError after the file is written
                      LET r == Fallback(CacheWritten(catnr, lines), catnr) IN
                      /\ call' = [catnr |-> catnr, request |-> lines,
                                  outcome |-> r.outcome, value |-> r.value]
                      /\ UNCHANGED last_good
      /\ UNCHANGED <<pc, step, times, trail_frames, gridVars, appVars>>

\* the file is left unreadable (a write cut short, an edit by hand)
CacheDamaged ==
    /\ pc = "tle_utils"
    /\ cache_file.exists
    /\ cache_file.readable
    /\ cache_file' = [cache_file EXCEPT !.readable = FALSE]
    /\ UNCHANGED <<pc, call, last_good, step, times, trail_frames, gridVars, appVars>>

\* the file is deleted
CacheRemoved ==
    /\ pc = "tle_utils"
    /\ cache_file.exists
    /\ cache_file' = [exists |-> FALSE, readable |-> TRUE, data |-> EmptyDict]
    /\ UNCHANGED <<pc, call, last_good, step, times, trail_frames, gridVars, appVars>>

NextTle ==
    \/ FetchTleRequestFails
    \/ FetchTleAnswered
    \/ CacheDamaged
    \/ CacheRemoved

SpecTle == InitTle /\ [][NextTle]_vars

----------------------------------------------------------------------------
(* Claims about build_times and trail_frames, checked under SpecGrid       *)

ValidConfig == days > 0 /\ step > 0
InSliderRange ==
    /\ days \in MinDaysCfg..MaxDaysCfg
    /\ step \in MinStepCfg..MaxStepCfg
Returned == pc \in {"returned", "grid_done", "ZeroDivisionError"}

\* C1: for a valid configuration (days > 0, step_minutes > 0) build_times
\* terminates (while it loops, t is start plus the number of timestamps
\* appended times the step and at most floor(days*1440/step)+1 timestamps
\* are appended, and the loop is never held by the bound of the model), and
\* the list it returns starts at start, has floor(days*1440/step)+1
\* elements, each step_minutes after its predecessor, and ends at or before
\* start + days, exactly there when step_minutes divides days*1440.
C1_GridContract ==
    ValidConfig =>
      LET n == DaysDelta(days) \div step + 1 IN
      /\ pc = "while" =>
            /\ t = start + Len(times) * step
            /\ Len(times) <= n
            /\ WhileCond(t, end) => Len(times) < MaxGrid
      /\ Returned =>
            /\ Len(times) = n
            /\ times[1] = start
            /\ \A i \in 2..Len(times) : times[i] - times[i - 1] = step
            /\ times[Len(times)] <= start + DaysDelta(days)
            /\ (DaysDelta(days) % step = 0)
                 => times[Len(times)] = start + DaysDelta(days)

\* a grid of a configuration inside the slider ranges whose step does not
\* divide the window, and one whose step does
C1_Witness ==
    /\ pc = "returned"
    /\ InSliderRange
    /\ DaysDelta(days) % step # 0
    /\ Len(times) = DaysDelta(days) \div step + 1
    /\ Len(times) > 80
    /\ start > 0

\* C2: a degenerate configuration (days <= 0 or step_minutes <= 0) is
\* refused: build_times neither returns for it nor appends a timestamp.
C2_DegenerateRefused ==
    (days <= 0 \/ step <= 0) => (~Returned /\ Len(times) = 0)

\* C7: a configuration outside days 7..35 or step 5..120 is rejected before
\* any timestamp is computed: build_times neither appends a timestamp nor
\* returns for it.
C7_OutOfRangeRejected ==
    (~InSliderRange) => (Len(times) = 0 /\ pc \notin {"returned", "grid_done"})

\* C8: for every positive step the trail length is
\* max(1, floor(360/step)), never zero, and the window the frame loop takes
\* of a series aligned with the grid has at least two points at every
\* k >= 1.
C8_TrailLength ==
    (pc = "grid_done" /\ step > 0) =>
        /\ trail_frames = Max(1, TrailMinutes \div step)
        /\ trail_frames >= 1
        /\ \A k \in 1..(Len(times) - 1) :
              Len(TrailWindow(times, k, trail_frames)) >= 2

\* the floor of 1 is what decides: a step above 360 minutes, on a grid of
\* several timestamps
C8_Witness ==
    /\ pc = "grid_done"
    /\ step > TrailMinutes
    /\ trail_frames = 1
    /\ Len(times) >= 3

----------------------------------------------------------------------------
(* Claims about the app.py script, checked under Spec                      *)

XyzOf(name) == results.val[name].eci_xyz
Malformed == { n \in Range(names) : element_set[n] # "ok" }
Aborted == pc = "ValueError"

\* C3: every frame k built holds, per object, the trajectory samples
\* max(0,k-L)..k in increasing order as its trail (min(k+1, L+1) points, one
\* point at k = 0) and the sample k as its marker; frame k is named f{k};
\* the frames never outnumber the grid and are exactly len(times) at the end,
\* where they are the frames of the figure.
C3_FrameContract ==
    /\ Len(frames) <= Len(times)
    /\ pc = "done" => (Len(frames) = Len(times) /\ fig_frames = frames)
    /\ \A k \in 0..(Len(frames) - 1) :
         /\ frames[k + 1].name = <<"f", k>>
         /\ \A j \in 1..Len(names) :
              LET xyz   == XyzOf(names[j])
                  lo    == IF k - trail_frames > 0 THEN k - trail_frames ELSE 0
                  trail == frames[k + 1].data[2 * j - 1]
                  mark  == frames[k + 1].data[2 * j]
              IN  /\ Len(trail.x) = Min(k + 1, trail_frames + 1)
                  /\ k = 0 => Len(trail.x) = 1
                  /\ trail.x = [i \in 1..(k - lo + 1) |-> xyz[lo + i][1]]
                  /\ trail.y = [i \in 1..(k - lo + 1) |-> xyz[lo + i][2]]
                  /\ trail.z = [i \in 1..(k - lo + 1) |-> xyz[lo + i][3]]
                  /\ mark.x = <<xyz[k + 1][1]>>
                  /\ mark.y = <<xyz[k + 1][2]>>
                  /\ mark.z = <<xyz[k + 1][3]>>

\* all frames built for two objects on a grid longer than the trail, the
\* last window cut at its start and holding a failed sample
C3_Witness ==
    /\ pc = "done"
    /\ Len(names) = 2
    /\ Len(times) = 3
    /\ trail_frames = 1
    /\ Len(frames) = 3
    /\ frames[3].data[1].x = <<None, XyzOf(names[1])[3][1]>>

\* C4: whatever error codes sat.sgp4 returns, the list built for an object
\* has one sample per call, the sample of call i is the sentinel exactly when
\* the code of call i is not 0 and is the position sat.sgp4 returned for
\* timestamp i otherwise; a stored trajectory has len(times) samples; and the
\* script is aborted only when an element set is malformed, never by a
\* failed sample.
C4_SamplePolicy ==
    LET Good(name, list) ==
          /\ Len(list) = Len(e_log[name])
          /\ \A i \in 1..Len(list) :
               /\ (e_log[name][i] # 0) <=> (list[i] = <<None, None, None>>)
               /\ (e_log[name][i] = 0) => (list[i] = SgpPosition(name, times[i]))
    IN  /\ \A name \in Range(results.keys) :
             /\ Len(XyzOf(name)) = Len(times)
             /\ results.val[name].time_list = times
             /\ Good(name, XyzOf(name))
        /\ pc = "samples" => Good(CurrentObject, eci_list)
        /\ Aborted => Malformed # {}
        /\ (Malformed = {} /\ pc \notin {"get_tles", "propagate", "samples"})
             => results.keys = names

\* a batch of two objects propagated to the end, one with a single failure
\* in mid-sequence and good samples around it
C4_Witness ==
    /\ pc = "done"
    /\ Len(names) = 2
    /\ Len(times) = 3
    /\ \E n \in Range(names) :
         /\ e_log[n] = <<0, 1, 0>>
         /\ XyzOf(n)[2] = <<None, None, None>>
         /\ XyzOf(n)[1] = SgpPosition(n, times[1])
         /\ XyzOf(n)[3] = SgpPosition(n, times[3])

\* C5: with exactly one malformed element set among the objects, the
\* script is not aborted and, at its end, holds a trajectory of len(times)
\* samples for each of the other objects.
C5_OneMalformedTolerated ==
    (Cardinality(Malformed) = 1 /\ Len(names) >= 2) =>
        /\ ~Aborted
        /\ pc = "done" =>
             \A n \in Range(names) \ Malformed :
                /\ n \in Range(results.keys)
                /\ Len(XyzOf(n)) = Len(times)

\* C6: every frame has 2*len(names) slots, and the object at position j of
\* names (0-based) has its trail in slot 2j and its marker in slot 2j+1 of
\* every frame.
C6_SlotOrder ==
    \A k \in 0..(Len(frames) - 1) :
      LET data == frames[k + 1].data IN
      /\ Len(data) = 2 * Len(names)
      /\ \A j \in 0..(Len(names) - 1) :
           LET name == names[j + 1]
               win  == TrailWindow(XyzOf(name), k, trail_frames)
           IN  /\ data[2 * j + 1].mode = "lines"
               /\ data[2 * j + 1].x = Column(win, 1)
               /\ \A i \in DOMAIN data[2 * j + 1].x :
                    \/ data[2 * j + 1].x[i] = None
                    \/ data[2 * j + 1].x[i][1] = name
               /\ data[2 * j + 2].mode = "markers+text"
               /\ data[2 * j + 2].name = name
               /\ data[2 * j + 2].text = <<name>>

\* two objects listed in the reverse of their numbering, every frame built
C6_Witness ==
    /\ pc = "done"
    /\ Len(names) = 2
    /\ names[1] = <<"SAT", 2>>
    /\ Len(frames) >= 2
    /\ frames[2].data[2].name = <<"SAT", 2>>
    /\ frames[2].data[4].name = <<"SAT", 1>>

\* C10: in the finished figure, the trace that slot i of a frame is
\* assigned to (traces[i]) is the initial trace of the object and role of
\* slot i: the trace named "<name> trail" for a trail, the trace named
\* <name> for a marker; no slot is assigned to the Earth surface.
C10_SlotsTargetOwnTraces ==
    pc = "done" =>
      \A k \in 1..Len(fig_frames) :
        \A i \in 0..(Len(fig_frames[k].data) - 1) :
          LET target == fig_data[fig_frames[k].traces[i + 1] + 1]
              name   == names[i \div 2 + 1]
          IN  /\ target.type = "scatter3d"
              /\ target.mode = fig_frames[k].data[i + 1].mode
              /\ target.name = (IF i % 2 = 0 THEN TrailName(name) ELSE name)

----------------------------------------------------------------------------
(* Claim about tle_utils.fetch_tle, checked under SpecTle                  *)

\* C9: no call of fetch_tle raises; a call whose request fails returns the
\* pair the most recent successful fetch of the same catalog number returned
\* when the cache file holds an entry for it, and the dummy ISS pair
\* otherwise; every entry of the cache file holds at least two lines.
C9_NeverRaises ==
    /\ call.outcome # "raised"
    /\ (call.outcome = "returned" /\ call.request = <<>>) =>
          call.value = (IF /\ cache_file.exists
                           /\ call.catnr \in Range(cache_file.data.keys)
                        THEN last_good[call.catnr]
                        ELSE DummyTle)
    /\ \A c \in Range(cache_file.data.keys) : HasPair(cache_file.data.val[c])

====
